---- MODULE Spec2Model ----
(***************************************************************************)
(* State-machine model of the document base registry                       *)
(* (utils/document_base_manager.py, DocumentBaseManager) and of the RAG    *)
(* orchestrator (rag_chatbot.py, RAGChatbot).                              *)
(*                                                                         *)
(* A base name is a tuple of one-character strings, so that the            *)
(* sanitisation of create_document_base is computed character by           *)
(* character.  A storage location is a pair <<safe_name, timestamp>>: the  *)
(* directory "<safe_name>_<timestamp>" below the registry's base           *)
(* directory.  None, the empty name and the unset retriever are all the    *)
(* empty tuple (Python treats None and "" alike in `if name:`).            *)
(***************************************************************************)
EXTENDS Integers, Sequences, FiniteSets, TLC

\* ---------------------------------------------------------------- bounds
MaxTime == 1        \* the clock time.time() runs over 0..MaxTime seconds
MaxChunks == 1      \* cap on the chunks stored at one storage location
MaxDocs == 1        \* cap on a base's num_documents and filenames list
MaxHistory == 3     \* cap on the number of conversation turns
MaxTokens == 1      \* cap on the fragments of one streamed answer

\* ------------------------------------------------------- input alphabets
None == <<>>
Alnum == {"a", "b"}
Names == {<<"a", " ">>, <<"a", "_">>, <<"b">>}
\* a credential is a tuple of characters, like a name
Keys == {<<>>, <<"s", "k">>}
Paths == {<<"tmp", "x">>}
Questions == {"q1", "q2"}
RewriterOutputs == {"standalone"}
Answers == {"ans"}
\* top_k = st.session_state.get("top_k", 6)
TopKs == {6}
Tokens == {"tok"}

\* --------------------------------------------------------------- state
VARIABLES
    now,                    \* int(time.time())
    metadata,               \* DocumentBaseManager.metadata (in memory)
    metadataFile,           \* metadata.json as persisted
    own_manager,            \* the DocumentBaseManager an orchestrator built
                            \* for itself: whether it exists, its metadata
    session,                \* st.session_state: documents_loaded,
                            \* current_base, and whether the chatbot it
                            \* holds uses a registry of its own
    dirs,                   \* directories existing below base_directory
    assigned,               \* every location create_document_base has returned
    index,                  \* chunks stored at each storage location
    marker,                 \* locations holding a chroma.sqlite3 file
    chatbot,                \* TRUE once a RAGChatbot has been constructed
    current_document_base,  \* RAGChatbot.current_document_base
    vector_store,           \* location RAGChatbot.vector_store is bound to
    retriever,              \* None, or the location the retriever reads
    qa_chain,               \* None, or the retriever the chain captured
    conversation_history,   \* RAGChatbot.conversation_history
    stream,                 \* the streaming answer in flight, if any
    answered,               \* asks answered successfully since the last clear
    last                    \* the last operation called and what it returned

regVars == <<metadata, metadataFile, dirs, assigned>>
storeVars == <<index, marker>>
botVars == <<chatbot, current_document_base, vector_store, retriever, qa_chain,
             conversation_history, stream, answered>>
vars == <<now, own_manager, session,
          metadata, metadataFile, dirs, assigned, index, marker, chatbot,
          current_document_base, vector_store, retriever, qa_chain,
          conversation_history, stream, answered, last>>

\* ------------------------------------------------------- storage locations
\* safe_name = "".join(c if c.isalnum() else "_" for c in name)
safe_name(name) ==
    [i \in 1..Len(name) |-> IF name[i] \in Alnum THEN name[i] ELSE "_"]

\* dir_name = f"{safe_name}_{timestamp}", joined to base_directory
dir_name(name, timestamp) == <<safe_name(name), timestamp>>

\* the default persist_directory "./chroma_db" of RAGChatbot.__init__
ChromaDb == <<<<"chroma_db">>, 0>>

Locations == {dir_name(n, t) : n \in Names, t \in 0..MaxTime} \cup {ChromaDb}

\* os.path.basename(doc)
basename(path) == path[Len(path)]

\* ------------------------------------------------------------ registry
Put(md, name, rec) ==
    [n \in (DOMAIN md) \cup {name} |-> IF n = name THEN rec ELSE md[n]]

Remove(md, name) == [n \in (DOMAIN md) \ {name} |-> md[n]]

\* the record create_document_base stores under metadata[name]
NewRecord(name, timestamp, description) ==
    [created_at |-> timestamp,
     updated_at |-> timestamp,
     description |-> description,
     directory |-> dir_name(name, timestamp),
     num_documents |-> 0,
     num_chunks |-> 0,
     documents |-> <<>>]

\* get_document_base: the KeyError guard and the record returned
get_document_base(md, name) ==
    IF name \notin DOMAIN md
    THEN [error |-> "KeyError", value |-> NewRecord(None, 0, "")]
    ELSE [error |-> "", value |-> md[name]]

\* get_document_base_path: the KeyError guard and the path returned
get_document_base_path(md, name) ==
    IF name \notin DOMAIN md
    THEN [error |-> "KeyError", value |-> None]
    ELSE [error |-> "", value |-> md[name].directory]

\* faulty variant: the counters and the filenames set to the arguments
UpdatedRecordAssigned(rec, timestamp, num_documents, num_chunks, documents) ==
    [rec EXCEPT !.updated_at = timestamp,
                !.num_documents = num_documents,
                !.num_chunks = num_chunks,
                !.documents = [i \in 1..Len(documents) |->
                                   basename(documents[i])]]

\* update_document_base on a registered name: the record after the update
\* made at time timestamp
UpdatedRecord(rec, timestamp, num_documents, num_chunks, documents) ==
    [rec EXCEPT !.updated_at = timestamp,
                !.num_documents = @ + num_documents,
                !.num_chunks = @ + num_chunks,
                !.documents = @ \o [i \in 1..Len(documents) |->
                                        basename(documents[i])]]

\* what an operation reports: its name, its argument, how it ended, and for
\* ask the question, the input given to the QA chain (retrieval and
\* generation), the service that failed during the call, the services it
\* called, whether the call of the rewriter chain raised, and the history
\* it rendered; for load_documents the number it
\* returns, how many of its input files were chunked without error, how
\* many failed, the chunks the processor yielded, and the base that was
\* active when it was called; for rename the new name; for update its
\* arguments; for a switch the base that was active before; for the
\* construction of an orchestrator the credential it was given
Report(op, name, outcome) ==
    [op |-> op, name |-> name, outcome |-> outcome, ret |-> 0,
     question |-> "", chain_input |-> "", answer |-> "", failure |-> "",
     files_ok |-> 0, files_failed |-> 0, yielded |-> 0, previous |-> None,
     new_name |-> None, args |-> <<>>, rewriter_failed |-> FALSE,
     key |-> <<>>,
     rewriter_calls |-> 0, embed_calls |-> 0, gen_calls |-> 0,
     prompt_history |-> <<>>, text |-> <<>>]

\* st.session_state as the script initialises it (app.py:151-161)
NoSession ==
    [documents_loaded |-> FALSE, current_base |-> None, own_registry |-> FALSE]

\* no DocumentBaseManager besides the session's
NoManager == [open |-> FALSE, metadata |-> <<>>]

\* DocumentBaseManager(): _load_metadata reads metadata.json as it is now
DocumentBaseManager_init(file) == [open |-> TRUE, metadata |-> file]

\* ---------------------------------------------------------------- Init
\* a fresh base directory: no metadata.json, no base, no orchestrator yet
Init ==
    /\ now = 0
    /\ own_manager = NoManager
    /\ session = NoSession
    /\ metadata = <<>>
    /\ metadataFile = <<>>
    /\ dirs = {}
    /\ assigned = {}
    /\ index = [l \in Locations |-> 0]
    /\ marker = {}
    /\ chatbot = FALSE
    /\ current_document_base = None
    /\ vector_store = ChromaDb
    /\ retriever = None
    /\ qa_chain = None
    /\ conversation_history = <<>>
    /\ stream = [state |-> "idle", text |-> <<>>]
    /\ answered = 0
    /\ last = Report("none", None, "")

\* the sequential caller of section 5: no call while a stream is being read
Idle == stream.state # "open"

\* time.time() advances
Tick ==
    /\ now < MaxTime
    /\ now' = now + 1
    /\ last' = Report("tick", None, "")
    /\ UNCHANGED <<own_manager, session, regVars, storeVars, botVars>>

\* shutil.rmtree(dir_path) on the store's side: the chunks and the marker
\* file below the directory go with it
RmtreeIndex(loc) == [index EXCEPT ![loc] = 0]

\* faulty variant: create_document_base making the directory before the
\* already-exists check
create_document_base_mkdir_first(name, description) ==
    /\ Idle
    /\ dirs' = dirs \cup {dir_name(name, now)}
    /\ IF name \in DOMAIN metadata
       THEN /\ last' = Report("create", name, "AlreadyExists")
            /\ UNCHANGED <<metadata, metadataFile, assigned>>
       ELSE /\ metadata' = Put(metadata, name, NewRecord(name, now, description))
            /\ metadataFile' = metadata'
            /\ assigned' = assigned \cup {dir_name(name, now)}
            /\ last' = Report("create", name, "ok")
    /\ UNCHANGED <<now, own_manager, session, storeVars, botVars>>

\* DocumentBaseManager.create_document_base(name, description)
create_document_base(name, description) ==
    /\ Idle
    /\ IF name \in DOMAIN metadata
       THEN /\ last' = Report("create", name, "AlreadyExists")
            /\ UNCHANGED regVars
       ELSE /\ dirs' = dirs \cup {dir_name(name, now)}
            /\ metadata' = Put(metadata, name, NewRecord(name, now, description))
            /\ metadataFile' = metadata'
            /\ assigned' = assigned \cup {dir_name(name, now)}
            /\ last' = Report("create", name, "ok")
    /\ UNCHANGED <<now, own_manager, session, storeVars, botVars>>

\* faulty variant: delete_document_base removing the entry before the storage
delete_document_base_entry_first(name, rmtree_fails) ==
    /\ Idle
    /\ IF name \notin DOMAIN metadata
       THEN /\ last' = Report("delete", name, "KeyError")
            /\ UNCHANGED <<regVars, storeVars>>
       ELSE /\ metadata' = Remove(metadata, name)
            /\ metadataFile' = metadata'
            /\ UNCHANGED assigned
            /\ IF metadata[name].directory \in dirs /\ rmtree_fails
               THEN /\ last' = Report("delete", name, "OSError")
                    /\ UNCHANGED <<dirs, storeVars>>
               ELSE /\ dirs' = dirs \ {metadata[name].directory}
                    /\ index' = RmtreeIndex(metadata[name].directory)
                    /\ marker' = marker \ {metadata[name].directory}
                    /\ last' = Report("delete", name, "ok")
    /\ UNCHANGED <<now, own_manager, session, botVars>>

\* DocumentBaseManager.delete_document_base(name); rmtree_fails: whether
\* shutil.rmtree raises
delete_document_base(name, rmtree_fails) ==
    /\ Idle
    /\ IF name \notin DOMAIN metadata
       THEN /\ last' = Report("delete", name, "KeyError")
            /\ UNCHANGED <<regVars, storeVars>>
       ELSE IF metadata[name].directory \in dirs /\ rmtree_fails
       THEN /\ last' = Report("delete", name, "OSError")
            /\ UNCHANGED <<regVars, storeVars>>
       ELSE /\ dirs' = dirs \ {metadata[name].directory}
            /\ index' = RmtreeIndex(metadata[name].directory)
            /\ marker' = marker \ {metadata[name].directory}
            /\ metadata' = Remove(metadata, name)
            /\ metadataFile' = metadata'
            /\ last' = Report("delete", name, "ok")
            /\ UNCHANGED assigned
    /\ UNCHANGED <<now, own_manager, session, botVars>>

\* faulty variant: the new name registered as a fresh base
RenamedRecordReset(rec, timestamp) ==
    [rec EXCEPT !.updated_at = timestamp, !.num_documents = 0,
                !.num_chunks = 0, !.documents = <<>>]

\* the record rename_document_base stores under the new name: a copy of the
\* old record with updated_at set
RenamedRecord(rec, timestamp) == [rec EXCEPT !.updated_at = timestamp]

\* faulty variant: update_document_base returning without _save_metadata
update_document_base_unsaved(name, num_documents, num_chunks, documents) ==
    /\ Idle
    /\ IF name \notin DOMAIN metadata
       THEN /\ last' = [Report("update", name, "KeyError") EXCEPT
                            !.args = <<num_documents, num_chunks, documents>>]
            /\ UNCHANGED regVars
       ELSE /\ metadata' =
                   Put(metadata, name,
                       UpdatedRecord(metadata[name], now, num_documents,
                                     num_chunks, documents))
            /\ last' = [Report("update", name, "ok") EXCEPT
                            !.args = <<num_documents, num_chunks, documents>>]
            /\ UNCHANGED <<metadataFile, dirs, assigned>>
    /\ UNCHANGED <<now, own_manager, session, storeVars, botVars>>

\* DocumentBaseManager.update_document_base(name, num_documents, num_chunks,
\* documents)
update_document_base(name, num_documents, num_chunks, documents) ==
    /\ Idle
    /\ IF name \notin DOMAIN metadata
       THEN /\ last' = [Report("update", name, "KeyError") EXCEPT
                            !.args = <<num_documents, num_chunks, documents>>]
            /\ UNCHANGED regVars
       ELSE /\ metadata' =
                   Put(metadata, name,
                       UpdatedRecord(metadata[name], now, num_documents,
                                     num_chunks, documents))
            /\ metadataFile' = metadata'
            /\ last' = [Report("update", name, "ok") EXCEPT
                            !.args = <<num_documents, num_chunks, documents>>]
            /\ UNCHANGED <<dirs, assigned>>
    /\ UNCHANGED <<now, own_manager, session, storeVars, botVars>>

\* DocumentBaseManager.rename_document_base(old_name, new_name)
rename_document_base(old_name, new_name) ==
    /\ Idle
    /\ IF old_name \notin DOMAIN metadata
       THEN /\ last' = [Report("rename", old_name, "KeyError") EXCEPT
                            !.new_name = new_name]
            /\ UNCHANGED regVars
       ELSE IF new_name \in DOMAIN metadata
       THEN /\ last' = [Report("rename", old_name, "AlreadyExists") EXCEPT
                            !.new_name = new_name]
            /\ UNCHANGED regVars
       ELSE /\ metadata' = Remove(Put(metadata, new_name,
                                      RenamedRecord(metadata[old_name], now)),
                                  old_name)
            /\ metadataFile' = metadata'
            /\ last' = [Report("rename", old_name, "ok") EXCEPT
                            !.new_name = new_name]
            /\ UNCHANGED <<dirs, assigned>>
    /\ UNCHANGED <<now, own_manager, session, storeVars, botVars>>

\* create_document_base(name, description) called on the registry the
\* orchestrator built for itself (load_documents, rag_chatbot.py:140)
own_create_document_base(name, description) ==
    /\ Idle
    /\ own_manager.open
    /\ IF name \in DOMAIN own_manager.metadata
       THEN /\ last' = Report("own_create", name, "AlreadyExists")
            /\ UNCHANGED <<own_manager, metadataFile, dirs, assigned>>
       ELSE /\ dirs' = dirs \cup {dir_name(name, now)}
            /\ own_manager' =
                   [own_manager EXCEPT
                        !.metadata =
                            Put(@, name, NewRecord(name, now, description))]
            /\ metadataFile' = own_manager'.metadata
            /\ assigned' = assigned \cup {dir_name(name, now)}
            /\ last' = Report("own_create", name, "ok")
    /\ UNCHANGED <<now, session, metadata, storeVars, botVars>>

\* update_document_base(name, num_documents, num_chunks, documents) called
\* on the registry the orchestrator built for itself (load_documents,
\* rag_chatbot.py:198-203)
own_update_document_base(name, num_documents, num_chunks, documents) ==
    /\ Idle
    /\ own_manager.open
    /\ IF name \notin DOMAIN own_manager.metadata
       THEN /\ last' = [Report("own_update", name, "KeyError") EXCEPT
                            !.args = <<num_documents, num_chunks, documents>>]
            /\ UNCHANGED <<own_manager, metadataFile>>
       ELSE /\ own_manager' =
                   [own_manager EXCEPT
                        !.metadata =
                            Put(@, name,
                                UpdatedRecord(@[name], now, num_documents,
                                              num_chunks, documents))]
            /\ metadataFile' = own_manager'.metadata
            /\ last' = [Report("own_update", name, "ok") EXCEPT
                            !.args = <<num_documents, num_chunks, documents>>]
    /\ UNCHANGED <<now, session, metadata, dirs, assigned, storeVars, botVars>>

Create == \E name \in Names : create_document_base(name, "")
Delete == \E name \in Names, f \in BOOLEAN : delete_document_base(name, f)
Rename == \E o \in Names, n \in Names : rename_document_base(o, n)

NextRegistry == Tick \/ Create \/ Delete \/ Rename

SpecRegistry == Init /\ [][NextRegistry]_vars

\* ------------------------------------------------------------ vector store
\* VectorStore.add_texts(chunks, metadatas): the chunks are stored durably at
\* the store's location
AddTexts(idx, loc, n) == [idx EXCEPT ![loc] = @ + n]

\* VectorStore.clear(): every chunk of the location is deleted
ClearIndex(idx, loc) == [idx EXCEPT ![loc] = 0]

\* os.path.exists(os.path.join(persist_directory, "chroma.sqlite3"))
chroma_exists(loc) == loc \in marker

\* ------------------------------------------------------------ conversation
HistoryWindow == 3

Guidance == "Please load documents first using the load_documents method."

\* the "Question i / Answer i" lines of turns h[1..Len(h)], numbered from
\* offset + 1
HistoryLines(h, offset) ==
    [j \in 1..(2 * Len(h)) |->
        IF j % 2 = 1
        THEN <<"Question", offset + (j + 1) \div 2, h[(j + 1) \div 2][1]>>
        ELSE <<"Answer", offset + j \div 2, h[j \div 2][2]>>]

\* faulty variant: the recent turns numbered from 1
_format_history_for_prompt_renumbered(history) ==
    IF history = <<>>
    THEN << <<"No previous conversation.", 0, "">> >>
    ELSE IF Len(history) > HistoryWindow
    THEN << <<"...", 0, "">> >> \o
         HistoryLines(SubSeq(history, Len(history) - HistoryWindow + 1,
                             Len(history)),
                      0)
    ELSE HistoryLines(history, 0)

\* RAGChatbot._format_history_for_prompt, as the lines of the returned text
_format_history_for_prompt(history) ==
    IF history = <<>>
    THEN << <<"No previous conversation.", 0, "">> >>
    ELSE IF Len(history) > HistoryWindow
    THEN << <<"...", 0, "">> >> \o
         HistoryLines(SubSeq(history, Len(history) - HistoryWindow + 1,
                             Len(history)),
                      Len(history) - HistoryWindow)
    ELSE HistoryLines(history, 0)

\* faulty variant: no except branch, the failure of the rewriter chain
\* becomes the rewritten question
_rewrite_question_unguarded(history, question, rw) ==
    IF history = <<>>
    THEN [value |-> question, calls |-> 0]
    ELSE [value |-> rw, calls |-> 1]

\* RAGChatbot._rewrite_question; rw is what the rewriter chain returns, or
\* "<error>" when its call raises
_rewrite_question(history, question, rw) ==
    IF history = <<>>
    THEN [value |-> question, calls |-> 0]
    ELSE IF rw = "<error>"
    THEN [value |-> question, calls |-> 1]
    ELSE [value |-> rw, calls |-> 1]

\* faulty variant: the turn recorded with the rewritten question
RecordedTurnRewritten(question, rewritten, answer) == <<rewritten, answer>>

\* the turn ask appends: self.conversation_history.append((question, answer))
RecordedTurn(question, rewritten, answer) == <<question, answer>>

\* return f"Error generating answer: {str(e)}", e raised by the retriever's
\* embedding call or by the generation call
ErrorAnswer(e) ==
    IF e = "embed_error" THEN "Error generating answer: embed_error"
    ELSE "Error generating answer: gen_error"

ErrorAnswers == {ErrorAnswer(e) : e \in {"embed_error", "gen_error"}}

\* faulty variant: the failed call recorded as a turn
HistoryAfterFailureRecorded(history, question, message) ==
    Append(history, <<question, message>>)

\* the history when ask leaves through its except branch: the append of the
\* try block was not reached
HistoryAfterFailure(history, question, message) == history

IdleStream == [state |-> "idle", text |-> <<>>]

\* ------------------------------------------------------------ orchestrator
\* RAGChatbot.__init__(openai_api_key = key, document_base_name = name,
\* document_base_manager = the registry); OPENAI_API_KEY is not set.
\* RAGChatbot_new is the constructor itself, RAGChatbot_init its call by a
\* caller that keeps no session.
RAGChatbot_new(key, name) ==
    /\ Idle
    /\ IF key = <<>>
       THEN /\ last' = [Report("init", name, "ValueError") EXCEPT
                            !.key = key]
            /\ UNCHANGED botVars
       ELSE LET path == get_document_base_path(metadata, name)
                found == name # None /\ path.error = ""
                persist_directory == IF found THEN path.value ELSE ChromaDb
                loaded == found /\ chroma_exists(persist_directory)
            IN  /\ chatbot' = TRUE
                /\ current_document_base' = name
                /\ vector_store' = persist_directory
                /\ retriever' = IF loaded THEN persist_directory ELSE None
                /\ qa_chain' = IF loaded THEN persist_directory ELSE None
                /\ conversation_history' = <<>>
                /\ stream' = IdleStream
                /\ answered' = 0
                /\ last' = [Report("init", name, "ok") EXCEPT !.key = key]
    /\ UNCHANGED <<now, own_manager, regVars, storeVars>>

RAGChatbot_init(key, name) ==
    /\ RAGChatbot_new(key, name)
    /\ UNCHANGED session

\* ------------------------------------------------------------------ shell
RECURSIVE lstrip(_)
\* str.lstrip(): the leading blanks removed
lstrip(s) == IF s # <<>> /\ Head(s) = " " THEN lstrip(Tail(s)) ELSE s

RECURSIVE rstrip(_)
\* str.rstrip(): the trailing blanks removed
rstrip(s) ==
    IF s # <<>> /\ s[Len(s)] = " " THEN rstrip(SubSeq(s, 1, Len(s) - 1))
    ELSE s

\* str.strip()
strip(s) == rstrip(lstrip(s))

\* app.py initialize_chatbot(), key being st.session_state.openai_api_key
initialize_chatbot(key) ==
    IF strip(key) = <<>>
    THEN /\ Idle
         /\ last' = [Report("initialize_chatbot", None, "MissingCredential")
                         EXCEPT !.key = key]
         /\ UNCHANGED <<now, own_manager, session, regVars, storeVars, botVars>>
    ELSE \* RAGChatbot(openai_api_key=api_key): no base, and a registry of
         \* its own made by DocumentBaseManager()
         /\ Idle
         /\ own_manager' = DocumentBaseManager_init(metadataFile)
         /\ session' = [session EXCEPT !.own_registry = TRUE]
         /\ chatbot' = TRUE
         /\ current_document_base' = None
         /\ vector_store' = ChromaDb
         /\ retriever' = None
         /\ qa_chain' = None
         /\ conversation_history' = <<>>
         /\ stream' = IdleStream
         /\ answered' = 0
         /\ last' = [Report("init", None, "ok") EXCEPT !.key = strip(key)]
         /\ UNCHANGED <<now, regVars, storeVars>>

\* app.py, the handler of the "Create Document Base" button:
\* create_document_base(name, description) on the session registry and, if
\* the session holds a credential, a new orchestrator on the new base
create_base_handler(name, description, key) ==
    /\ Idle
    /\ IF name \in DOMAIN metadata
       THEN /\ last' = [Report("create_base", name, "AlreadyExists") EXCEPT
                            !.key = key]
            /\ UNCHANGED <<session, regVars, botVars>>
       ELSE /\ dirs' = dirs \cup {dir_name(name, now)}
            /\ metadata' = Put(metadata, name, NewRecord(name, now, description))
            /\ metadataFile' = metadata'
            /\ assigned' = assigned \cup {dir_name(name, now)}
            /\ IF key = <<>>
               THEN /\ last' = [Report("create_base", name, "created") EXCEPT
                                    !.key = key]
                    /\ UNCHANGED <<session, botVars>>
               ELSE LET persist_directory == dir_name(name, now)
                        loaded == chroma_exists(persist_directory)
                    IN  /\ chatbot' = TRUE
                        /\ current_document_base' = name
                        /\ vector_store' = persist_directory
                        /\ retriever' =
                               IF loaded THEN persist_directory ELSE None
                        /\ qa_chain' =
                               IF loaded THEN persist_directory ELSE None
                        /\ conversation_history' = <<>>
                        /\ stream' = IdleStream
                        /\ answered' = 0
                        /\ session' = [session EXCEPT
                                           !.current_base = name,
                                           !.own_registry = FALSE]
                        /\ last' = [Report("create_base", name, "ok") EXCEPT
                                        !.key = key]
    /\ UNCHANGED <<now, own_manager, storeVars>>

\* app.py, the handler of the "Load Base" button on a listed base
load_base_handler(name, key) ==
    /\ name \in DOMAIN metadata
    /\ RAGChatbot_new(key, name)
    /\ session' =
           IF last'.outcome = "ok"
           THEN [documents_loaded |-> retriever' # None,
                 current_base |-> name,
                 own_registry |-> FALSE]
           ELSE session

\* RAGChatbot._switch_document_base(name)
_switch_document_base(name) ==
    /\ Idle
    /\ chatbot
    /\ LET base_path == get_document_base_path(metadata, name)
       IN  IF base_path.error # ""
           THEN /\ last' = Report("switch", name, "KeyError")
                /\ UNCHANGED botVars
           ELSE /\ vector_store' = base_path.value
                /\ current_document_base' = name
                /\ retriever' = base_path.value
                /\ qa_chain' = base_path.value
                /\ last' = [Report("switch", name, "ok") EXCEPT
                                !.previous = current_document_base]
                /\ UNCHANGED <<chatbot, conversation_history, stream, answered>>
    /\ UNCHANGED <<now, own_manager, session, regVars, storeVars>>

\* faulty variant: clear_documents leaving the QA chain in place
clear_documents_keeping_chain ==
    /\ Idle
    /\ chatbot
    /\ index' = ClearIndex(index, vector_store)
    /\ retriever' = None
    /\ last' = Report("clear_documents", None, "ok")
    /\ UNCHANGED <<now, own_manager, session,
                   regVars, marker, chatbot, current_document_base,
                   vector_store, qa_chain, conversation_history, stream,
                   answered>>

\* RAGChatbot.clear_documents()
clear_documents ==
    /\ Idle
    /\ chatbot
    /\ index' = ClearIndex(index, vector_store)
    /\ retriever' = None
    /\ qa_chain' = None
    /\ last' = Report("clear_documents", None, "ok")
    /\ UNCHANGED <<now, own_manager, session,
                   regVars, marker, chatbot, current_document_base,
                   vector_store, conversation_history, stream, answered>>

\* faulty variant: clear_history resetting the retriever and the QA chain too
clear_history_resetting_stage ==
    /\ Idle
    /\ chatbot
    /\ conversation_history' = <<>>
    /\ answered' = 0
    /\ retriever' = None
    /\ qa_chain' = None
    /\ last' = Report("clear_history", None, "ok")
    /\ UNCHANGED <<now, own_manager, session,
                   regVars, storeVars, chatbot, current_document_base,
                   vector_store, stream>>

\* RAGChatbot.clear_history()
clear_history ==
    /\ Idle
    /\ chatbot
    /\ conversation_history' = <<>>
    /\ answered' = 0
    /\ last' = Report("clear_history", None, "ok")
    /\ UNCHANGED <<now, own_manager, session,
                   regVars, storeVars, chatbot, current_document_base,
                   vector_store, retriever, qa_chain, stream>>

\* RAGChatbot.ask(question, streaming).  rw: what the rewriter chain returns
\* ("<error>": it raises); svc: "embed_error" when the retriever's embedding
\* call raises, "gen_error" when the generation call raises, else the answer
ask(question, streaming, rw, svc) ==
    /\ Idle
    /\ chatbot
    /\ IF retriever = None \/ qa_chain = None
       THEN /\ last' = [Report("ask", None, "guidance") EXCEPT
                            !.question = question, !.answer = Guidance]
            /\ UNCHANGED botVars
       ELSE LET rewritten == _rewrite_question(conversation_history, question, rw)
                called == [Report("ask", None, "") EXCEPT
                               !.question = question,
                               !.chain_input = rewritten.value,
                               !.rewriter_calls = rewritten.calls,
                               !.rewriter_failed =
                                   (rewritten.calls = 1 /\ rw = "<error>")]
            IN  IF streaming
                THEN /\ answered < MaxHistory
                     /\ stream' = [state |-> "open", text |-> <<>>]
                     /\ last' = [called EXCEPT !.outcome = "stream"]
                     /\ UNCHANGED <<chatbot, current_document_base,
                                    vector_store, retriever, qa_chain,
                                    conversation_history, answered>>
                ELSE IF svc = "embed_error"
                THEN /\ conversation_history' =
                            HistoryAfterFailure(conversation_history,
                                                question, ErrorAnswer(svc))
                     /\ last' = [called EXCEPT !.outcome = "error",
                                               !.failure = "retrieval",
                                               !.answer = ErrorAnswer(svc),
                                               !.embed_calls = 1]
                     /\ UNCHANGED <<chatbot, current_document_base,
                                    vector_store, retriever, qa_chain, stream,
                                    answered>>
                ELSE IF svc = "gen_error"
                THEN /\ conversation_history' =
                            HistoryAfterFailure(conversation_history,
                                                question, ErrorAnswer(svc))
                     /\ last' = [called EXCEPT
                                     !.outcome = "error",
                                     !.failure = "generation",
                                     !.answer = ErrorAnswer(svc),
                                     !.embed_calls = 1,
                                     !.gen_calls = 1,
                                     !.prompt_history =
                                         _format_history_for_prompt(
                                             conversation_history)]
                     /\ UNCHANGED <<chatbot, current_document_base,
                                    vector_store, retriever, qa_chain, stream,
                                    answered>>
                ELSE /\ Len(conversation_history) < MaxHistory
                     /\ answered < MaxHistory
                     /\ conversation_history' =
                            Append(conversation_history,
                                   RecordedTurn(question, rewritten.value, svc))
                     /\ answered' = answered + 1
                     /\ last' = [called EXCEPT
                                     !.outcome = "answer",
                                     !.answer = svc,
                                     !.embed_calls = 1,
                                     !.gen_calls = 1,
                                     !.prompt_history =
                                         _format_history_for_prompt(
                                             conversation_history)]
                     /\ UNCHANGED <<chatbot, current_document_base,
                                    vector_store, retriever, qa_chain, stream>>
    /\ UNCHANGED <<now, own_manager, session, regVars, storeVars>>

\* RAGChatbot.ask_sync(question, top_k = top_k): it calls
\* self.ask(question, streaming=False, top_k=top_k), and ask takes no
\* parameter top_k, so the call raises TypeError before the body of ask
\* runs; the finally branch closes the loop and the error leaves ask_sync
ask_sync(question, top_k) ==
    /\ Idle
    /\ chatbot
    /\ last' = [Report("ask_sync", None, "TypeError") EXCEPT
                    !.question = question]
    /\ UNCHANGED <<now, own_manager, session, regVars, storeVars, botVars>>

\* StreamingCallbackHandler.on_llm_new_token(token): self.text += token
on_llm_new_token(token) ==
    /\ stream.state = "open"
    /\ Len(stream.text) < MaxTokens
    /\ stream' = [stream EXCEPT !.text = Append(@, token)]
    /\ last' = Report("token", None, "ok")
    /\ UNCHANGED <<now, own_manager, session,
                   regVars, storeVars, chatbot, current_document_base,
                   vector_store, retriever, qa_chain, conversation_history,
                   answered>>

\* the generator returned by ask(streaming=True) is exhausted: the answer
\* is complete and handler.get_text() returns the accumulated text
stream_complete ==
    /\ stream.state = "open"
    /\ stream' = IdleStream
    /\ answered' = answered + 1
    /\ last' = [Report("stream", None, "complete") EXCEPT !.text = stream.text]
    /\ UNCHANGED <<now, own_manager, session,
                   regVars, storeVars, chatbot, current_document_base,
                   vector_store, retriever, qa_chain, conversation_history>>

\* the generator raises: retrieval or generation failed while streaming
stream_error ==
    /\ stream.state = "open"
    /\ stream' = IdleStream
    /\ last' = [Report("stream", None, "error") EXCEPT !.text = stream.text]
    /\ UNCHANGED <<now, own_manager, session,
                   regVars, storeVars, chatbot, current_document_base,
                   vector_store, retriever, qa_chain, conversation_history,
                   answered>>

\* ------------------------------------------------------------- ingestion
\* what the document processor does with the inputs of one load_documents
\* call: per file of file_paths whether process_file returns (ok) and how
\* many chunks; for directory_path whether it is given, whether
\* process_directory returns, and the chunks of each file it found
MaxFiles == 2
MaxFileChunks == 1

SeqsUpTo(S, n) == UNION {[1..k -> S] : k \in 0..n}

FileOutcomes ==
    {f \in [path : Paths, ok : BOOLEAN, chunks : 0..MaxFileChunks] :
        ~f.ok => f.chunks = 0}

DirOutcomes ==
    {[given |-> FALSE, ok |-> TRUE, files |-> <<>>],
     [given |-> TRUE, ok |-> FALSE, files |-> <<>>]} \cup
    {[given |-> TRUE, ok |-> TRUE, files |-> fs] :
        fs \in SeqsUpTo(0..MaxFileChunks, 1)}

RECURSIVE FileChunksUntilFailure(_)
\* faulty variant: the loop over file_paths ends at the first path whose
\* extraction raises
FileChunksUntilFailure(files) ==
    IF files = <<>> \/ ~Head(files).ok THEN 0
    ELSE Head(files).chunks + FileChunksUntilFailure(Tail(files))

RECURSIVE FileChunks(_)
\* len(processed_chunks) after the loop over file_paths
FileChunks(files) ==
    IF files = <<>> THEN 0
    ELSE (IF Head(files).ok THEN Head(files).chunks ELSE 0) +
         FileChunks(Tail(files))

\* faulty variant: every path of file_paths counted, the failed ones too
FileCountAll(files) == Len(files)

RECURSIVE FileCount(_)
\* file_count after the loop over file_paths: one per file that did not raise
FileCount(files) ==
    IF files = <<>> THEN 0
    ELSE (IF Head(files).ok THEN 1 ELSE 0) + FileCount(Tail(files))

RECURSIVE SumSeq(_)
SumSeq(ns) == IF ns = <<>> THEN 0 ELSE Head(ns) + SumSeq(Tail(ns))

\* the chunks and the files the directory walk adds
DirChunks(dir) == IF dir.given /\ dir.ok THEN SumSeq(dir.files) ELSE 0
DirCount(dir) == IF dir.given /\ dir.ok THEN Len(dir.files) ELSE 0

\* the input files of the call that were chunked without error: the paths
\* of file_paths whose extraction returned, and the files of the directory
\* when its walk returned
ChunkedWithoutError(files, dir) ==
    Cardinality({i \in 1..Len(files) : files[i].ok}) +
    (IF dir.given /\ dir.ok THEN Len(dir.files) ELSE 0)

\* the paths of file_paths whose extraction raised
FailedFiles(files) == Cardinality({i \in 1..Len(files) : ~files[i].ok})

\* the chunks the document processor returned for the inputs of the call
Yielded(files, dir) ==
    SumSeq([i \in 1..Len(files) |->
                IF files[i].ok THEN files[i].chunks ELSE 0]) +
    (IF dir.given /\ dir.ok THEN SumSeq(dir.files) ELSE 0)

\* documents = file_paths if file_paths else []
DocumentsArg(files) == [i \in 1..Len(files) |-> files[i].path]

\* faulty variant: the active base is left as it was
ActiveAfterTargetKept(current, target) == current

\* self.current_document_base after lines 132-147: the target when one is
\* given and differs from the active base (set by _switch_document_base,
\* or after create_document_base)
ActiveAfterTarget(current, target) ==
    IF target # None /\ target # current THEN target ELSE current

\* RAGChatbot.load_documents(file_paths, directory_path, document_base_name).
\* add_fails: whether vector_store.add_texts raises
\* (a successful add_texts persists the store below its location, which
\* then exists and holds the chroma.sqlite3 file).
\* load_documents_call is the method itself, load_documents its call by a
\* caller that keeps no session.
load_documents_call(files, dir, target, add_fails) ==
  \* lines 149-189: len(processed_chunks) and file_count after both loops
  \E chunks \in {FileChunks(files) + DirChunks(dir)},
     file_count \in {FileCount(files) + DirCount(dir)} :
    LET switching == target # None /\ target # current_document_base
        exists == get_document_base_path(metadata, target).error = ""
        creating == switching /\ ~exists
        \* lines 132-147: switch to the target, or create it
        md1 == IF creating
               THEN Put(metadata, target, NewRecord(target, now, ""))
               ELSE metadata
        dirs1 == IF creating THEN dirs \cup {dir_name(target, now)} ELSE dirs
        current1 == ActiveAfterTarget(current_document_base, target)
        store1 == IF switching THEN md1[target].directory ELSE vector_store
        retriever1 == IF switching /\ exists THEN store1 ELSE retriever
        qa_chain1 == IF switching /\ exists THEN store1 ELSE qa_chain
        \* lines 192-209
        writes == chunks > 0 /\ ~add_fails
        updates == writes /\ current1 # None
        missing == updates /\ current1 \notin DOMAIN md1
        md2 == IF updates /\ ~missing
               THEN Put(md1, current1,
                        UpdatedRecord(md1[current1], now, file_count, chunks,
                                      DocumentsArg(files)))
               ELSE md1
        outcome == IF chunks > 0 /\ add_fails THEN "EmbeddingError"
                   ELSE IF missing THEN "KeyError"
                   ELSE "ok"
    IN  /\ Idle
        /\ chatbot
        /\ metadata' = md2
        /\ metadataFile' = IF creating \/ (updates /\ ~missing)
                           THEN md2 ELSE metadataFile
        /\ dirs' = IF writes /\ store1 # ChromaDb
                   THEN dirs1 \cup {store1} ELSE dirs1
        /\ assigned' = IF creating
                       THEN assigned \cup {dir_name(target, now)} ELSE assigned
        /\ index' = IF writes THEN AddTexts(index, store1, chunks) ELSE index
        /\ marker' = IF writes THEN marker \cup {store1} ELSE marker
        /\ current_document_base' = current1
        /\ vector_store' = store1
        /\ retriever' = IF outcome = "ok" /\ chunks > 0 THEN store1
                        ELSE retriever1
        /\ qa_chain' = IF outcome = "ok" /\ chunks > 0 THEN store1
                       ELSE qa_chain1
        /\ last' = [Report("load", target, outcome) EXCEPT
                        !.ret = IF outcome = "ok" THEN chunks ELSE 0,
                        !.files_ok = ChunkedWithoutError(files, dir),
                        !.files_failed = FailedFiles(files),
                        !.yielded = Yielded(files, dir),
                        !.previous = current_document_base]
        /\ UNCHANGED <<now, own_manager,
                       chatbot, conversation_history, stream, answered>>

load_documents(files, dir, target, add_fails) ==
    /\ load_documents_call(files, dir, target, add_fails)
    /\ UNCHANGED session

\* ------------------------------------------------------- specifications
\* the step stays within the bounds: at most max_chunks chunks in an index,
\* at most max_docs documents and max_names filenames in a record
Capped(max_chunks, max_docs, max_names) ==
    /\ \A loc \in Locations : index'[loc] <= max_chunks
    /\ \A name \in DOMAIN metadata' :
           /\ metadata'[name].num_documents <= max_docs
           /\ Len(metadata'[name].documents) <= max_names

NoDir == [given |-> FALSE, ok |-> TRUE, files |-> <<>>]

\* add_texts is called, and so can raise, only when chunks were produced
AddOutcomes(files, dir) ==
    IF FileChunks(files) + DirChunks(dir) > 0 THEN BOOLEAN ELSE {FALSE}

\* The conversation: one orchestrator, one registered base besides the
\* default store, one file per load_documents call, every outcome of ask
\* and of a streamed answer.
ChatNames == {<<"b">>}

ChatCreate == \E name \in ChatNames : create_document_base(name, "")
Construct ==
    \E key \in Keys, name \in ChatNames \cup {None} : RAGChatbot_init(key, name)
ChatSwitch == \E name \in ChatNames : _switch_document_base(name)
ChatLoad ==
    \E file \in FileOutcomes, target \in ChatNames \cup {None} :
        \E add_fails \in AddOutcomes(<<file>>, NoDir) :
            /\ load_documents(<<file>>, NoDir, target, add_fails)
            /\ Capped(MaxChunks, MaxDocs, MaxDocs)
Ask ==
    \E q \in Questions, streaming \in BOOLEAN,
       rw \in RewriterOutputs \cup {"<error>"},
       svc \in Answers \cup {"embed_error", "gen_error"} :
        ask(q, streaming, rw, svc)
AskSync == \E q \in Questions, top_k \in TopKs : ask_sync(q, top_k)
StreamToken == \E token \in Tokens : on_llm_new_token(token)

Next ==
    \/ ChatCreate
    \/ Construct
    \/ ChatSwitch
    \/ ChatLoad
    \/ Ask
    \/ AskSync
    \/ StreamToken
    \/ stream_complete
    \/ stream_error
    \/ clear_documents
    \/ clear_history

Spec == Init /\ [][Next]_vars

\* The bases of the orchestrator: two registered bases with different
\* storage locations, load_documents on every target, one question.
BotNames == {<<"a", " ">>, <<"b">>}

BotCreate == \E name \in BotNames : create_document_base(name, "")
BotConstruct ==
    \E key \in Keys, name \in BotNames \cup {None} : RAGChatbot_init(key, name)
BotSwitch == \E name \in BotNames : _switch_document_base(name)
\* file_paths: no path or one path
BotFiles == {<<>>} \cup {<<f>> : f \in FileOutcomes}

BotLoad ==
    \E files \in BotFiles, target \in BotNames \cup {None} :
        \E add_fails \in AddOutcomes(files, NoDir) :
            /\ load_documents(files, NoDir, target, add_fails)
            /\ Capped(MaxChunks, MaxDocs, MaxDocs)
\* the first question of a conversation
BotAsk ==
    /\ conversation_history = <<>>
    /\ \E svc \in Answers \cup {"embed_error", "gen_error"} :
           ask("q1", FALSE, "standalone", svc)

NextBases ==
    \/ BotCreate
    \/ BotConstruct
    \/ BotSwitch
    \/ BotLoad
    \/ BotAsk

SpecBases == Init /\ [][NextBases]_vars

\* The counters of the registry: two bases with descriptions, created,
\* updated, renamed and deleted; a record counts at most MaxCount
\* documents, chunks and filenames.
MaxCount == 2

Descriptions == {"", "notes"}

\* the arguments of an update: one document of one chunk with its path, or
\* one more chunk without a path
UpdateArgs ==
    {[num_documents |-> 1, num_chunks |-> 1, documents |-> <<p>>] :
         p \in Paths} \cup
    {[num_documents |-> 0, num_chunks |-> 1, documents |-> <<>>]}

CountCreate ==
    \E name \in BotNames, description \in Descriptions :
        create_document_base(name, description)
CountUpdate ==
    \E name \in BotNames, a \in UpdateArgs :
        /\ update_document_base(name, a.num_documents, a.num_chunks,
                                a.documents)
        /\ \A n \in DOMAIN metadata' :
               /\ metadata'[n].num_documents <= MaxCount
               /\ metadata'[n].num_chunks <= MaxCount
               /\ Len(metadata'[n].documents) <= MaxCount
CountDelete ==
    \E name \in BotNames, f \in BOOLEAN : delete_document_base(name, f)
CountRename ==
    \E o \in BotNames, n \in BotNames : rename_document_base(o, n)

NextCounters ==
    \/ CountCreate
    \/ CountUpdate
    \/ CountDelete
    \/ CountRename

SpecCounters == Init /\ [][NextCounters]_vars

\* Ingestion: two bases, an orchestrator constructed on one of them,
\* load_documents into the active base with up to MaxFiles paths and a
\* directory.
\* a file yields one chunk, yields none, or fails; so do the files found
\* in the directory
IngestFiles == {f \in FileOutcomes : f.chunks <= 1}
IngestDirs ==
    {d \in DirOutcomes : \A i \in 1..Len(d.files) : d.files[i] <= 1}

IngestConstruct == RAGChatbot_init(<<"s", "k">>, <<"b">>)
IngestBatches == SeqsUpTo(IngestFiles, MaxFiles)
IngestLoad ==
    \E files \in IngestBatches, dir \in IngestDirs :
        \E add_fails \in AddOutcomes(files, dir) :
            /\ load_documents(files, dir, None, add_fails)
            /\ Capped(MaxFiles, MaxFiles, MaxFiles)

NextIngest ==
    \/ BotCreate
    \/ IngestConstruct
    \/ IngestLoad

SpecIngest == Init /\ [][NextIngest]_vars

\* A batch of files: one base, an orchestrator constructed on it or on no
\* base, load_documents on no target or on the base, with no path, one
\* path, or one path after a path whose extraction fails.
BatchNames == {<<"b">>}

BatchFiles ==
    BotFiles \cup
    {<<g, f>> : g \in {x \in FileOutcomes : ~x.ok}, f \in FileOutcomes}

BatchCreate == \E name \in BatchNames : create_document_base(name, "")
BatchConstruct ==
    \E name \in BatchNames \cup {None} :
        RAGChatbot_init(<<"s", "k">>, name)
BatchLoad ==
    \E files \in BatchFiles, target \in BatchNames \cup {None} :
        \E add_fails \in AddOutcomes(files, NoDir) :
            /\ load_documents(files, NoDir, target, add_fails)
            /\ Capped(MaxChunks, MaxDocs, 2 * MaxDocs)

NextBatch ==
    \/ BatchCreate
    \/ BatchConstruct
    \/ BatchLoad
    \/ clear_documents

SpecBatch == Init /\ [][NextBatch]_vars

\* app.py process_uploaded_files, run by the "Process Documents" button on
\* the uploaded files: without a chatbot it reports and returns; else it
\* calls load_documents(file_paths, document_base_name = current_base) and
\* then sets documents_loaded, whatever the number of chunks returned; an
\* exception of load_documents is reported and leaves the flag alone
process_uploaded_files(files, add_fails) ==
    IF ~chatbot
    THEN /\ Idle
         /\ last' = Report("process", None, "not_initialized")
         /\ UNCHANGED <<now, own_manager, session,
                        regVars, storeVars, botVars>>
    ELSE /\ load_documents_call(files, NoDir, session.current_base, add_fails)
         /\ session' = IF last'.outcome = "ok"
                       THEN [session EXCEPT !.documents_loaded = TRUE]
                       ELSE session

\* app.py, the handler of the "Delete Base" button on a listed base:
\* delete_document_base on the session's registry, and when the base was the
\* session's current one the session drops the base, the flag and the
\* chatbot; an exception of the registry is reported (the body run once the
\* deletion is confirmed)
delete_base_handler(name, rmtree_fails) ==
    /\ Idle
    /\ name \in DOMAIN metadata
    /\ IF metadata[name].directory \in dirs /\ rmtree_fails
       THEN /\ last' = Report("delete_base", name, "OSError")
            /\ UNCHANGED <<session, regVars, storeVars, botVars>>
       ELSE /\ dirs' = dirs \ {metadata[name].directory}
            /\ index' = RmtreeIndex(metadata[name].directory)
            /\ marker' = marker \ {metadata[name].directory}
            /\ metadata' = Remove(metadata, name)
            /\ metadataFile' = metadata'
            /\ last' = Report("delete_base", name, "ok")
            /\ UNCHANGED assigned
            /\ IF session.current_base = name
               THEN /\ session' = NoSession
                    /\ chatbot' = FALSE
                    /\ current_document_base' = None
                    /\ vector_store' = ChromaDb
                    /\ retriever' = None
                    /\ qa_chain' = None
                    /\ conversation_history' = <<>>
                    /\ stream' = IdleStream
                    /\ answered' = 0
               ELSE UNCHANGED <<session, botVars>>
    /\ UNCHANGED <<now, own_manager>>

\* app.py, the handler of the "Clear Documents" button, shown while
\* documents_loaded is set: when there is a chatbot,
\* chatbot.clear_documents() and the flag is dropped
clear_documents_handler ==
    /\ Idle
    /\ session.documents_loaded
    /\ IF chatbot
       THEN /\ index' = ClearIndex(index, vector_store)
            /\ retriever' = None
            /\ qa_chain' = None
            /\ session' = [session EXCEPT !.documents_loaded = FALSE]
       ELSE UNCHANGED <<session, index, retriever, qa_chain>>
    /\ last' = Report("clear_documents", None, "ok")
    /\ UNCHANGED <<now, own_manager,
                   regVars, marker, chatbot, current_document_base,
                   vector_store, conversation_history, stream, answered>>

\* app.py, the chat input: without a chatbot or without documents_loaded the
\* prompt is answered by a notice and not sent; else it goes to
\* chatbot.ask_sync(prompt, top_k = top_k), whose exception is reported
chat_input(prompt, top_k) ==
    IF chatbot /\ session.documents_loaded
    THEN ask_sync(prompt, top_k)
    ELSE /\ Idle
         /\ last' = [Report("chat", None, "not_sent") EXCEPT
                         !.question = prompt]
         /\ UNCHANGED <<now, own_manager, session,
                        regVars, storeVars, botVars>>

\* The entry points of the shell that construct an orchestrator, with the
\* credential typed into the session: empty, blank, or a key with or
\* without a blank before it; uploaded files are loaded into the active
\* base.
ShellKeys == {<<>>, <<" ">>, <<"s", "k">>, <<" ", "s", "k">>}

ShellInitialize == \E key \in ShellKeys : initialize_chatbot(key)
ShellCreate ==
    \E name \in BotNames, key \in ShellKeys :
        create_base_handler(name, "", key)
ShellLoadBase ==
    \E name \in BotNames, key \in ShellKeys : load_base_handler(name, key)
ShellProcess ==
    \E file \in FileOutcomes :
        \E add_fails \in AddOutcomes(<<file>>, NoDir) :
            /\ session.own_registry => session.current_base = None
            /\ process_uploaded_files(<<file>>, add_fails)
            /\ Capped(MaxChunks, MaxDocs, MaxDocs)

NextShell ==
    \/ Tick
    \/ ShellInitialize
    \/ ShellCreate
    \/ ShellLoadBase
    \/ ShellProcess

SpecShell == Init /\ [][NextShell]_vars

\* The session of the shell: every button and the chat input, on two bases
\* and one file per upload. Uploads are taken while the orchestrator uses
\* the session's registry or no base at all, the registry load_documents is
\* modelled on.
SessionInitialize == \E key \in Keys : initialize_chatbot(key)
SessionCreate ==
    \E name \in BotNames, key \in Keys : create_base_handler(name, "", key)
SessionLoadBase ==
    \E name \in BotNames, key \in Keys : load_base_handler(name, key)
SessionDelete ==
    \E name \in BotNames, rmtree_fails \in BOOLEAN :
        delete_base_handler(name, rmtree_fails)
SessionProcess ==
    \E file \in FileOutcomes :
        \E add_fails \in AddOutcomes(<<file>>, NoDir) :
            /\ session.own_registry => session.current_base = None
            /\ process_uploaded_files(<<file>>, add_fails)
            /\ Capped(MaxChunks, MaxDocs, MaxDocs)
SessionChat ==
    \E prompt \in Questions, top_k \in TopKs : chat_input(prompt, top_k)

NextSession ==
    \/ SessionInitialize
    \/ SessionCreate
    \/ SessionLoadBase
    \/ SessionDelete
    \/ SessionProcess
    \/ clear_documents_handler
    \/ SessionChat

SpecSession == Init /\ [][NextSession]_vars

\* The active base and the registry: an orchestrator constructed on,
\* switched to or loading into one of two bases, while the registry it uses
\* creates, deletes and renames bases.
ActiveConstruct ==
    \E name \in BotNames \cup {None} : RAGChatbot_init(<<"s", "k">>, name)
ActiveLoad ==
    \E files \in BotFiles, target \in BotNames \cup {None} :
        \E add_fails \in AddOutcomes(files, NoDir) :
            /\ load_documents(files, NoDir, target, add_fails)
            /\ Capped(MaxChunks, MaxDocs, MaxDocs)
ActiveDelete == \E name \in BotNames : delete_document_base(name, FALSE)

NextActive ==
    \/ BotCreate
    \/ ActiveConstruct
    \/ BotSwitch
    \/ ActiveLoad
    \/ ActiveDelete
    \/ CountRename

SpecActive == Init /\ [][NextActive]_vars

\* Two registries on one base directory: the session's, and the one an
\* orchestrator made by Initialize Chatbot builds for itself; bases are
\* created and updated through either.
SharedInitialize == initialize_chatbot(<<"s", "k">>)
SharedOwnCreate == \E name \in BotNames : own_create_document_base(name, "")
SharedOwnUpdate ==
    \E name \in BotNames, a \in UpdateArgs :
        /\ own_update_document_base(name, a.num_documents, a.num_chunks,
                                    a.documents)
        /\ \A n \in DOMAIN own_manager'.metadata :
               /\ own_manager'.metadata[n].num_documents <= MaxCount
               /\ own_manager'.metadata[n].num_chunks <= MaxCount
               /\ Len(own_manager'.metadata[n].documents) <= MaxCount

NextShared ==
    \/ BotCreate
    \/ CountUpdate
    \/ SharedInitialize
    \/ SharedOwnCreate
    \/ SharedOwnUpdate

SpecShared == Init /\ [][NextShared]_vars

\* The rendering of the history: an orchestrator whose conversation holds
\* up to MaxTurns turns renders it for the generation prompt.
MaxTurns == 5

Turns == {<<q, a>> : q \in Questions, a \in Answers}

InitHistory ==
    /\ now = 0
    /\ own_manager = NoManager
    /\ session = NoSession
    /\ metadata = <<>>
    /\ metadataFile = <<>>
    /\ dirs = {}
    /\ assigned = {}
    /\ index = [l \in Locations |-> 0]
    /\ marker = {}
    /\ chatbot = TRUE
    /\ current_document_base = None
    /\ vector_store = ChromaDb
    /\ retriever = None
    /\ qa_chain = None
    /\ conversation_history \in SeqsUpTo(Turns, MaxTurns)
    /\ stream = IdleStream
    /\ answered = Len(conversation_history)
    /\ last = Report("none", None, "")

\* "history": lambda _: self._format_history_for_prompt()
RenderHistory ==
    /\ chatbot
    /\ last' = [Report("format", None, "ok") EXCEPT
                    !.prompt_history =
                        _format_history_for_prompt(conversation_history)]
    /\ UNCHANGED <<now, own_manager, session, regVars, storeVars, botVars>>

NextHistory ==
    \/ RenderHistory
    \/ clear_history

SpecHistory == InitHistory /\ [][NextHistory]_vars

\* ------------------------------------------------------------------ claims
\* the orchestrator is in Ready: retriever and QA chain are set
Ready == chatbot /\ retriever # None /\ qa_chain # None

\* C1: whenever the active vector index holds zero chunks, ask returns the
\* guidance string, calls neither the rewriter, the embedding nor the
\* generation service, and leaves the conversation history unchanged.
C1_AskWithoutChunksIsGuidance ==
    [][(last'.op = "ask" /\ index[vector_store] = 0) =>
           /\ last'.outcome = "guidance"
           /\ last'.answer = Guidance
           /\ last'.rewriter_calls = 0
           /\ last'.embed_calls = 0
           /\ last'.gen_calls = 0
           /\ conversation_history' = conversation_history]_vars

\* C2: every successful change of the active document base, by
\* _switch_document_base or by load_documents on another target, leaves the
\* conversation history empty.
C2_BaseChangeClearsHistory ==
    [][(last'.op \in {"switch", "load"} /\ last'.outcome = "ok" /\
        current_document_base' # current_document_base) =>
           conversation_history' = <<>>]_vars

\* C3: after a successful switch the orchestrator is in Ready if and only
\* if the base it switched to holds at least one chunk.
C3_SwitchReadyIffChunks ==
    (last.op = "switch" /\ last.outcome = "ok") =>
        (Ready <=> index[vector_store] >= 1)

\* C4: no two registered bases share a storage location, and a base just
\* created has zero counts and no filenames.
C4_LocationsDistinct ==
    /\ \A n1 \in DOMAIN metadata, n2 \in DOMAIN metadata :
           n1 # n2 => metadata[n1].directory # metadata[n2].directory
    /\ (last.op = "create" /\ last.outcome = "ok") =>
           /\ metadata[last.name].num_documents = 0
           /\ metadata[last.name].num_chunks = 0
           /\ metadata[last.name].documents = <<>>

\* C5: the location a create assigns differs from every location assigned
\* by an earlier create of the same registry, deleted bases included.
C5_LocationNeverReused ==
    [][(last'.op = "create" /\ last'.outcome = "ok") =>
           metadata'[last'.name].directory \notin assigned]_vars

\* C6: create on a registered name fails with the already-exists error and
\* changes neither the registry in memory, nor the persisted registry, nor
\* the storage directories.
C6_CreateExistingChangesNothing ==
    [][(last'.op = "create" /\ last'.name \in DOMAIN metadata) =>
           /\ last'.outcome = "AlreadyExists"
           /\ metadata' = metadata
           /\ metadataFile' = metadataFile
           /\ dirs' = dirs]_vars

\* C6 witness: a create has been refused on a registered name whose
\* directory name would by now be a new one
C6_Witness ==
    /\ last.op = "create"
    /\ last.outcome = "AlreadyExists"
    /\ last.name \in DOMAIN metadata
    /\ dir_name(last.name, now) \notin dirs

\* C7: after a successful delete the name is unknown to get and pathOf, its
\* directory is gone, the persisted registry does not hold it, and every
\* other base keeps its record and its storage directory.
C7_DeleteRemovesOnlyThatBase ==
    [][(last'.op = "delete" /\ last'.outcome = "ok") =>
           /\ get_document_base(metadata', last'.name).error = "KeyError"
           /\ get_document_base_path(metadata', last'.name).error = "KeyError"
           /\ metadata[last'.name].directory \notin dirs'
           /\ last'.name \notin DOMAIN metadataFile'
           /\ \A other \in (DOMAIN metadata) \ {last'.name} :
                  /\ other \in DOMAIN metadata'
                  /\ metadata'[other] = metadata[other]
                  /\ metadataFile'[other] = metadata[other]
                  /\ metadata[other].directory \in dirs =>
                         metadata[other].directory \in dirs']_vars

\* C8: when removing the storage directory fails, delete reports the error
\* and the entry stays, with the same record, in memory and in the file.
C8_FailedRemovalKeepsEntry ==
    [][(last'.op = "delete" /\ last'.name \in DOMAIN metadata /\
        last'.outcome # "ok") =>
           /\ last'.outcome = "OSError"
           /\ last'.name \in DOMAIN metadata'
           /\ last'.name \in DOMAIN metadataFile'
           /\ metadata' = metadata
           /\ metadataFile' = metadataFile
           /\ metadataFile'[last'.name] = metadata[last'.name]]_vars

\* C8 witness: a delete of a registered base has failed at the removal of
\* its directory
C8_Witness ==
    /\ last.op = "delete"
    /\ last.outcome = "OSError"
    /\ last.name \in DOMAIN metadata
    /\ metadata[last.name].directory \in dirs

\* C9: a successful one-shot ask in Ready with a non-empty history appends
\* the turn (question as passed, generated answer); the rewritten question
\* is only the input of the QA chain.
C9_TurnHoldsOriginalQuestion ==
    [][(last'.op = "ask" /\ last'.outcome = "answer" /\
        conversation_history # <<>>) =>
           /\ conversation_history' =
                  Append(conversation_history, <<last'.question, last'.answer>>)
           /\ last'.rewriter_calls = 1
           /\ last'.chain_input \in RewriterOutputs \cup {last'.question}]_vars

\* C9 witness: an answered follow-up whose rewritten form differs from the
\* question the caller passed
C9_Witness ==
    /\ last.op = "ask"
    /\ last.outcome = "answer"
    /\ Len(conversation_history) >= 2
    /\ last.rewriter_calls = 1
    /\ last.chain_input # last.question
    /\ conversation_history[Len(conversation_history)] =
           <<last.question, last.answer>>

\* C10: the history holds exactly one turn per ask answered successfully
\* since the last clear, one-shot or streamed.
C10_OneTurnPerAnsweredAsk == Len(conversation_history) = answered

\* C11: in Ready, when retrieval or generation fails during ask, ask
\* returns the answer string "Error generating answer: ..." instead of
\* raising, and the conversation history is unchanged by the call.
C11_FailedAskReturnsErrorAnswer ==
    [][(last'.op = "ask" /\ Ready /\ last'.failure # "") =>
           /\ last'.outcome = "error"
           /\ last'.answer \in ErrorAnswers
           /\ conversation_history' = conversation_history]_vars

\* C11 witness: generation has failed in an ask with earlier turns, and the
\* history still holds exactly these turns
C11_Witness ==
    /\ last.op = "ask"
    /\ last.failure = "generation"
    /\ last.answer = ErrorAnswer("gen_error")
    /\ Len(conversation_history) >= 1
    /\ Len(conversation_history) = answered

\* C12: ask_sync(question, top_k = k) is ask(question, streaming = False):
\* it never raises, it returns the guidance string outside Ready, and it
\* appends the turn (question, answer) exactly when it returns an answer.
C12_AskSyncIsAsk ==
    [][last'.op = "ask_sync" =>
           /\ last'.outcome \in {"guidance", "error", "answer"}
           /\ ~Ready => /\ last'.answer = Guidance
                        /\ conversation_history' = conversation_history
           /\ last'.outcome = "answer" =>
                  conversation_history' =
                      Append(conversation_history,
                             <<last'.question, last'.answer>>)]_vars

C14_LoadSwitchesOrCreatesTarget ==
    [][(last'.op = "load" /\ last'.name # None /\
        last'.name # current_document_base) =>
           LET target == last'.name
           IN  /\ current_document_base' = target
               /\ target \in DOMAIN metadata'
               /\ vector_store' = metadata'[target].directory
               /\ \A loc \in Locations :
                      index'[loc] # index[loc] => loc = vector_store'
               /\ \A other \in (DOMAIN metadata) \ {target} :
                      /\ other \in DOMAIN metadata'
                      /\ metadata'[other] = metadata[other]
               /\ target \in DOMAIN metadata =>
                      /\ DOMAIN metadata' = DOMAIN metadata
                      /\ metadata'[target].directory =
                             metadata[target].directory
                      /\ dirs \subseteq dirs'
                      /\ dirs' \subseteq dirs \cup {vector_store'}
               /\ target \notin DOMAIN metadata =>
                      /\ DOMAIN metadata' = DOMAIN metadata \cup {target}
                      /\ Cardinality(DOMAIN metadata') =
                             Cardinality(DOMAIN metadata) + 1]_vars

\* C14 witness: a load has moved the orchestrator from one registered base
\* to another registered base and has written chunks there
C14_Witness ==
    /\ last.op = "load"
    /\ last.outcome = "ok"
    /\ last.ret > 0
    /\ last.previous \in DOMAIN metadata
    /\ last.name \in DOMAIN metadata
    /\ last.previous # last.name
    /\ current_document_base = last.name
    /\ index[metadata[last.name].directory] > 0
    /\ metadata[last.previous].directory # metadata[last.name].directory

\* C15 as stated: a load_documents call whose files all fail or yield no
\* chunk returns 0 without raising, writes nothing to the vector index,
\* changes no record of the registry and leaves the stage (Ready or not) as
\* it was; and a call that returns has ingested every chunk of the files
\* that did not fail.
C15_EmptyLoadKeepsStage ==
    [][/\ (last'.op = "load" /\ last'.yielded = 0) =>
              /\ last'.outcome = "ok"
              /\ last'.ret = 0
              /\ index' = index
              /\ marker' = marker
              /\ \A name \in DOMAIN metadata :
                     /\ name \in DOMAIN metadata'
                     /\ metadata'[name] = metadata[name]
              /\ Ready' <=> Ready
       /\ (last'.op = "load" /\ last'.outcome = "ok") =>
              /\ last'.ret = last'.yielded
              /\ index'[vector_store'] =
                     index[vector_store'] + last'.yielded]_vars

\* C15 amended: the same, the stage being left as it was when the call
\* leaves the active base as it was.
C15_EmptyLoadKeepsStageOfSameBase ==
    [][/\ (last'.op = "load" /\ last'.yielded = 0) =>
              /\ last'.outcome = "ok"
              /\ last'.ret = 0
              /\ index' = index
              /\ marker' = marker
              /\ \A name \in DOMAIN metadata :
                     /\ name \in DOMAIN metadata'
                     /\ metadata'[name] = metadata[name]
              /\ current_document_base' = current_document_base =>
                     /\ Ready' <=> Ready
                     /\ retriever' = retriever
                     /\ qa_chain' = qa_chain
       /\ (last'.op = "load" /\ last'.outcome = "ok") =>
              /\ last'.ret = last'.yielded
              /\ index'[vector_store'] =
                     index[vector_store'] + last'.yielded]_vars

\* C15 witness: in one call the first file has failed and the second has
\* been ingested into the active base
C15_Witness ==
    /\ last.op = "load"
    /\ last.outcome = "ok"
    /\ last.files_failed = 1
    /\ last.files_ok = 1
    /\ last.ret = 1
    /\ index[vector_store] >= 1
    /\ current_document_base \in DOMAIN metadata
    /\ metadata[current_document_base].num_chunks >= 1

\* C16: after every mutating registry operation, failed calls included,
\* the persisted registry document equals the registry in memory, so that
\* a fresh instance loads the same names and records.
C16_PersistedEqualsMemory ==
    /\ DOMAIN metadataFile = DOMAIN metadata
    /\ \A name \in DOMAIN metadata : metadataFile[name] = metadata[name]

\* C16 witness: a call has failed after an update and a rename went
\* through, and the file holds the updated record under the new name
C16_Witness ==
    /\ last.op \in {"create", "update", "delete", "rename"}
    /\ last.outcome \in {"AlreadyExists", "KeyError", "OSError"}
    /\ \E name \in DOMAIN metadataFile :
           /\ metadataFile[name].num_chunks > 0
           /\ metadataFile[name].directory # dir_name(name, 0)
           /\ metadata[name] = metadataFile[name]

\* C17: a successful rename keeps the number of bases, removes the old
\* name and registers the new one with the record of the old one, only
\* updated_at being set anew; no storage directory is created, moved or
\* removed.  It fails with KeyError when the old name is absent and with
\* the already-exists error when the new name is present (the old name
\* itself included), and then the registry is unchanged.
C17_RenameKeepsRecord ==
    [][last'.op = "rename" =>
           LET old == last'.name
               new == last'.new_name
           IN  /\ dirs' = dirs
               /\ index' = index
               /\ marker' = marker
               /\ old \notin DOMAIN metadata =>
                      /\ last'.outcome = "KeyError"
                      /\ metadata' = metadata
                      /\ metadataFile' = metadataFile
               /\ (old \in DOMAIN metadata /\ new \in DOMAIN metadata) =>
                      /\ last'.outcome = "AlreadyExists"
                      /\ metadata' = metadata
                      /\ metadataFile' = metadataFile
               /\ (old \in DOMAIN metadata /\ new \notin DOMAIN metadata) =>
                      /\ last'.outcome = "ok"
                      /\ Cardinality(DOMAIN metadata') =
                             Cardinality(DOMAIN metadata)
                      /\ DOMAIN metadata' =
                             ((DOMAIN metadata) \ {old}) \cup {new}
                      /\ metadata'[new] =
                             [metadata[old] EXCEPT
                                  !.updated_at = metadata'[new].updated_at]
                      /\ metadata'[new].updated_at = now
                      /\ \A other \in (DOMAIN metadata) \ {old} :
                             metadata'[other] = metadata[other]]_vars

\* C17 witness: a base with a description, documents and chunks has been
\* renamed and keeps the location made for its old name
C17_Witness ==
    /\ last.op = "rename"
    /\ last.outcome = "ok"
    /\ last.new_name \in DOMAIN metadata
    /\ last.name \notin DOMAIN metadata
    /\ metadata[last.new_name].directory = dir_name(last.name, 0)
    /\ metadata[last.new_name].directory # dir_name(last.new_name, 0)
    /\ metadata[last.new_name].description = "notes"
    /\ metadata[last.new_name].num_documents > 0
    /\ metadata[last.new_name].documents # <<>>
    /\ metadata[last.new_name].directory \in dirs

\* C18: get and pathOf report a name absent from the registry, and so do
\* update, delete, _switch_document_base and the construction of the
\* orchestrator on such a name, which leave the registry, the storage
\* directories and the orchestrator (active base, vector store binding,
\* retriever, QA chain, history) exactly as they were.
C18_AbsentNameChangesNothing ==
    [][/\ \A name \in Names \ DOMAIN metadata :
              /\ get_document_base(metadata, name).error = "KeyError"
              /\ get_document_base_path(metadata, name).error = "KeyError"
       /\ (last'.op \in {"update", "delete", "switch", "init"} /\
           last'.name # None /\ last'.name \notin DOMAIN metadata) =>
              /\ last'.outcome \in {"KeyError", "ValueError"}
              /\ last'.outcome = "ValueError" => last'.op = "init"
              /\ metadata' = metadata
              /\ metadataFile' = metadataFile
              /\ dirs' = dirs
              /\ index' = index
              /\ chatbot' = chatbot
              /\ current_document_base' = current_document_base
              /\ vector_store' = vector_store
              /\ retriever' = retriever
              /\ qa_chain' = qa_chain
              /\ conversation_history' = conversation_history]_vars

\* C19: update(name, d, c, files) on a registered base adds d to
\* num_documents, c to num_chunks and the basenames of files, in order, to
\* the filenames, whatever the record held before, so k equal calls add k
\* times as much; no other base's record changes.
C19_UpdateIsAdditive ==
    [][(last'.op = "update" /\ last'.name \in DOMAIN metadata) =>
           LET name == last'.name
               d == last'.args[1]
               c == last'.args[2]
               files == last'.args[3]
           IN  /\ last'.outcome = "ok"
               /\ DOMAIN metadata' = DOMAIN metadata
               /\ metadata'[name].num_documents =
                      metadata[name].num_documents + d
               /\ metadata'[name].num_chunks = metadata[name].num_chunks + c
               /\ metadata'[name].documents =
                      metadata[name].documents \o
                          [i \in 1..Len(files) |-> basename(files[i])]
               /\ metadata'[name].directory = metadata[name].directory
               /\ metadata'[name].description = metadata[name].description
               /\ metadata'[name].created_at = metadata[name].created_at
               /\ \A other \in (DOMAIN metadata) \ {name} :
                      metadata'[other] = metadata[other]]_vars

\* C19 witness: the same update has been made twice on a base, next to
\* another base, and has counted twice
C19_Witness ==
    /\ last.op = "update"
    /\ last.outcome = "ok"
    /\ last.args[1] = 1
    /\ last.args[2] = 1
    /\ Len(last.args[3]) = 1
    /\ metadata[last.name].num_documents = 2
    /\ metadata[last.name].num_chunks = 2
    /\ metadata[last.name].documents =
           <<basename(last.args[3][1]), basename(last.args[3][1])>>
    /\ \E other \in DOMAIN metadata : other # last.name

\* C20: clear_documents empties the active vector index and unsets the
\* retriever and the QA chain, leaving the registry, the active base, the
\* vector store binding and the conversation history as they were; the
\* next ask returns the guidance string; a later load_documents that
\* ingests chunks makes the orchestrator Ready again.
C20_ClearDocumentsResetsStage ==
    [][/\ last'.op = "clear_documents" =>
              /\ index'[vector_store] = 0
              /\ retriever' = None
              /\ qa_chain' = None
              /\ ~Ready'
              /\ metadata' = metadata
              /\ metadataFile' = metadataFile
              /\ current_document_base' = current_document_base
              /\ vector_store' = vector_store
              /\ conversation_history' = conversation_history
       /\ (last.op = "clear_documents" /\ last'.op = "ask") =>
              /\ last'.outcome = "guidance"
              /\ last'.answer = Guidance
              /\ conversation_history' = conversation_history
       /\ (~Ready /\ last'.op = "load" /\ last'.outcome = "ok" /\
           last'.ret > 0) =>
              /\ Ready'
              /\ retriever' = vector_store'
              /\ index'[vector_store'] > 0]_vars

\* C20 witness: the documents of a registered base with counted chunks
\* have been cleared in the middle of a conversation
C20_Witness ==
    /\ last.op = "clear_documents"
    /\ ~Ready
    /\ index[vector_store] = 0
    /\ conversation_history # <<>>
    /\ current_document_base \in DOMAIN metadata
    /\ vector_store = metadata[current_document_base].directory
    /\ metadata[current_document_base].num_chunks > 0
    /\ metadata[current_document_base].documents # <<>>

\* s is a prefix of t
IsPrefix(s, t) == Len(s) <= Len(t) /\ SubSeq(t, 1, Len(s)) = s

\* C21: the conversation history is append-only between clears: a step of
\* one orchestrator that is neither clear_history nor a change of the
\* active base leaves the earlier history as a prefix of the later one, and
\* grows it by at most one turn; clear_history empties the history and
\* changes neither the stage, the active base, the retriever, the vector
\* store nor the registry.
C21_HistoryAppendOnly ==
    [][/\ (last'.op \notin {"clear_history", "init"} /\
           current_document_base' = current_document_base) =>
              /\ IsPrefix(conversation_history, conversation_history')
              /\ Len(conversation_history') <= Len(conversation_history) + 1
       /\ last'.op = "clear_history" =>
              /\ conversation_history' = <<>>
              /\ Ready' <=> Ready
              /\ retriever' = retriever
              /\ qa_chain' = qa_chain
              /\ current_document_base' = current_document_base
              /\ vector_store' = vector_store
              /\ index' = index
              /\ metadata' = metadata
              /\ metadataFile' = metadataFile]_vars

\* C21 witness: a third turn has been appended behind two different
\* earlier turns, which are still in place
C21_Witness ==
    /\ last.op = "ask"
    /\ last.outcome = "answer"
    /\ Len(conversation_history) = 3
    /\ conversation_history[1] # conversation_history[2]
    /\ conversation_history[3] = <<last.question, last.answer>>

\* C22: for a history of n turns the generation-prompt history renders
\* min(n, 3) turns in order: for 1 <= n <= 3 the turns 1..n numbered 1..n
\* and no ellipsis marker; for n > 3 the ellipsis marker and then exactly
\* the turns n-2, n-1, n, numbered n-2, n-1, n.
C22_RendersLastThreeTurns ==
    (last.op = "format" /\ conversation_history # <<>>) =>
        LET n == Len(conversation_history)
            r == last.prompt_history
            m == IF n <= 3 THEN n ELSE 3
            first == IF n <= 3 THEN 0 ELSE 1
        IN  /\ Len(r) = first + 2 * m
            /\ n > 3 => r[1] = <<"...", 0, "">>
            /\ \A j \in (first + 1)..Len(r) : r[j][1] # "..."
            /\ \A k \in 1..m :
                   /\ r[first + 2 * k - 1] =
                          <<"Question", n - m + k,
                            conversation_history[n - m + k][1]>>
                   /\ r[first + 2 * k] =
                          <<"Answer", n - m + k,
                            conversation_history[n - m + k][2]>>

\* C22 witness: a history of five turns has been rendered, the first line
\* after the marker being question 3
C22_Witness ==
    /\ last.op = "format"
    /\ Len(conversation_history) = 5
    /\ conversation_history[2] # conversation_history[3]
    /\ Len(last.prompt_history) = 7
    /\ last.prompt_history[2] =
           <<"Question", 3, conversation_history[3][1]>>

\* C23: with an empty history the rewriter returns the question unchanged
\* and calls no generative service, so the first ask after construction,
\* after clear_history or after a switch to another base makes exactly one
\* generative call, the one that answers.
C23_FirstAskCallsGenerationOnce ==
    [][(last'.op = "ask" /\ last'.outcome # "guidance") =>
           /\ conversation_history = <<>> =>
                  /\ last'.rewriter_calls = 0
                  /\ last'.chain_input = last'.question
           /\ (\/ last.op = "init" /\ last.outcome = "ok"
               \/ last.op = "clear_history"
               \/ /\ last.op = "switch"
                  /\ last.outcome = "ok"
                  /\ last.previous # current_document_base) =>
                  /\ last'.rewriter_calls = 0
                  /\ last'.outcome = "answer" =>
                         last'.rewriter_calls + last'.gen_calls = 1]_vars

\* C24: when the history is not empty and the call of the rewriter fails,
\* ask goes on with the original question as the input of retrieval and
\* generation; it returns an error string only when retrieval or
\* generation fails as well, and an answer is appended to the history as
\* the turn (question, answer).
C24_RewriterFailureFallsBack ==
    [][(last'.op = "ask" /\ last'.rewriter_failed) =>
           /\ conversation_history # <<>>
           /\ last'.rewriter_calls = 1
           /\ last'.chain_input = last'.question
           /\ last'.outcome \in {"answer", "error", "stream"}
           /\ last'.outcome = "error" <=> last'.failure # ""
           /\ last'.outcome = "error" => last'.embed_calls = 1
           /\ last'.outcome = "answer" =>
                  /\ last'.embed_calls = 1
                  /\ last'.gen_calls = 1
                  /\ last'.answer \in Answers
                  /\ conversation_history' =
                         Append(conversation_history,
                                <<last'.question, last'.answer>>)]_vars

\* C24 witness: a follow-up question whose rewriting failed has been
\* answered and recorded
C24_Witness ==
    /\ last.op = "ask"
    /\ last.rewriter_failed
    /\ last.outcome = "answer"
    /\ last.chain_input = last.question
    /\ Len(conversation_history) >= 2
    /\ conversation_history[Len(conversation_history)] =
           <<last.question, last.answer>>

\* C25: an orchestrator is never constructed with an empty or blank
\* credential: Initialize Chatbot and Load Base then report the missing
\* credential, Create Document Base reports it or only registers the base,
\* and the session is left without a new orchestrator; with any other
\* credential the orchestrator made has an
\* empty history, and is not Ready when no base was named.
C25_BlankCredentialRefused ==
    [][last'.op \in {"init", "initialize_chatbot", "create_base"} =>
           /\ (strip(last'.key) = <<>> /\
               last'.outcome # "AlreadyExists") =>
                  /\ last'.outcome \in
                         {"ValueError", "MissingCredential", "created"}
                  /\ UNCHANGED botVars
           /\ (strip(last'.key) # <<>> /\ last'.outcome = "ok") =>
                  /\ chatbot'
                  /\ conversation_history' = <<>>
                  /\ last'.name = None => ~Ready']_vars

\* C26: one load_documents call writes the vector index at most once, all
\* its chunks in one batch at the location of the active store, and updates
\* the counters only after that write; when the write fails no record of
\* the registry changes, and whenever the index has received the chunks
\* and a base is active, the counters of that base have grown by them.
C26_IndexWriteThenCounters ==
    [][last'.op = "load" =>
           /\ \A loc \in Locations :
                  index'[loc] # index[loc] =>
                      /\ loc = vector_store'
                      /\ index'[loc] = index[loc] + last'.yielded
           /\ last'.outcome = "EmbeddingError" =>
                  /\ index' = index
                  /\ \A name \in DOMAIN metadata :
                         /\ name \in DOMAIN metadata'
                         /\ metadata'[name] = metadata[name]
                  /\ \A name \in (DOMAIN metadata') \ DOMAIN metadata :
                         metadata'[name].num_chunks = 0
           /\ (index' # index /\ current_document_base' # None) =>
                  /\ current_document_base' \in DOMAIN metadata'
                  /\ metadata'[current_document_base'].num_chunks =
                         (IF current_document_base' \in DOMAIN metadata
                          THEN metadata[current_document_base'].num_chunks
                          ELSE 0) + last'.yielded]_vars

\* C27: whenever the retriever is set, it reads the vector index the
\* orchestrator holds, the QA chain retrieves through it, and that index
\* is bound to the storage location of the current document base.
C27_RetrieverReadsCurrentBase ==
    (chatbot /\ retriever # None) =>
        /\ retriever = vector_store
        /\ qa_chain # None => qa_chain = vector_store
        /\ current_document_base \in DOMAIN metadata =>
               vector_store = metadata[current_document_base].directory

\* C28: the current document base of the orchestrator is unset or a name
\* registered in the registry it uses, whatever was constructed, loaded,
\* switched, deleted or renamed; so load_documents never fails with
\* KeyError at the update of the registry.
C28_ActiveBaseIsRegistered ==
    /\ chatbot =>
           \/ current_document_base = None
           \/ current_document_base \in DOMAIN metadata
    /\ last.op = "load" => last.outcome # "KeyError"

\* C29: every registered base records as many filenames as it counts
\* documents, after any sequence of load_documents calls with failing
\* files and directories.
C29_FilenamesMatchDocumentCount ==
    \A name \in DOMAIN metadata :
        Len(metadata[name].documents) = metadata[name].num_documents

\* C30: with two registries open on one base directory, a successful
\* create or update through either of them keeps every base of the
\* persisted registry: each is still there, and all but the one updated
\* have the record they had.
C30_OtherInstanceKeepsBases ==
    [][(last'.op \in {"create", "update", "own_create", "own_update"} /\
        last'.outcome = "ok") =>
           \A name \in DOMAIN metadataFile :
               /\ name \in DOMAIN metadataFile'
               /\ name # last'.name =>
                      metadataFile'[name] = metadataFile[name]
               /\ metadataFile'[name].num_chunks >=
                      metadataFile[name].num_chunks]_vars

\* C31: in the shell, after any sequence of its actions, documents_loaded is
\* set exactly when the session holds an orchestrator whose retriever is
\* set; so a question typed into the chat input is sent to the orchestrator
\* exactly when the orchestrator is in Ready.
C31_FlagMatchesRetriever ==
    [][/\ session'.documents_loaded <=> (chatbot' /\ retriever' # None)
       /\ last'.op = "ask_sync" => Ready
       /\ (last'.op = "chat" /\ last'.outcome = "not_sent") => ~Ready]_vars

====
